---- MODULE Spec2Model ----
(***************************************************************************)
(* Receipt splitting: the calculation engine compute() of the receipt      *)
(* reviewer (equal split of items among payers, proportional tax           *)
(* allocation, half-up rounding to cents, penny reconciliation).           *)
(*                                                                         *)
(* Money.  decimal.js values are modelled as integers counting grid steps  *)
(* of 1/Unit cent: the amount c cents is the integer c * Unit.  Sums and   *)
(* products of amounts are exact; a Decimal division is rounded to the     *)
(* nearest grid step, ties away from zero (ROUND_HALF_UP), as decimal.js   *)
(* rounds a quotient to its configured precision.  JS numbers hold the     *)
(* same grid: every value of the model has fewer than 15 significant       *)
(* digits, which a double and its shortest decimal string carry exactly.   *)
(***************************************************************************)
EXTENDS Integers, Sequences, FiniteSets, TLC

\* draft, result, warnings: the AppState of the application (App.tsx);
\* pc: the position of the running function or handler; upload: the file
\* handleFileUpload is reading, with the people it took from its props;
\* alert: the message of the last alert shown to the user; editor: the
\* component state of ReceiptDraftEditor (newItem) and of its ItemRows
\* (isEditing, editItem)
VARIABLES draft, result, warnings, pc, upload, alert, editor

vars == <<draft, result, warnings, pc, upload, alert, editor>>

(***************************************************************************)
(* Bounds of the model.  Unit is the precision of the decimal arithmetic   *)
(* (grid steps per cent; the code keeps 20 significant digits), the others *)
(* bound the lists of a draft.                                             *)
(***************************************************************************)
Unit == 10
MaxPeople == 3
MaxItems == 2
MaxPayers == 3

\* person ids, the names of the items by position, and the prices and tax
\* totals (in cents) drafts are built from
Ids == {"A", "B", "C"}
ItemNames == <<"x", "y", "z">>
Prices == {-100, 100}
Taxes == {-1, 0, 1}

Cents(c) == c * Unit

Abs(x) == IF x < 0 THEN -x ELSE x

RECURSIVE SeqsUpTo(_, _)
SeqsUpTo(S, n) ==
  IF n = 0 THEN {<<>>}
  ELSE LET shorter == SeqsUpTo(S, n - 1)
       IN  shorter \cup {Append(s, x) : s \in {t \in shorter : Len(t) = n - 1}, x \in S}

Range(s) == {s[i] : i \in 1..Len(s)}

IsInjective(s) == \A i, j \in 1..Len(s) : s[i] = s[j] => i = j

(***************************************************************************)
(* Person ids are compared with String.localeCompare: the collation order  *)
(* of the ids of the model, letters before case.                           *)
(***************************************************************************)
IdOrder == <<"A", "ali", "B", "bob", "C", "kev">>

IdRank(id) == CHOOSE i \in 1..Len(IdOrder) : IdOrder[i] = id

localeCompare(a, b) ==
  IF IdRank(a) < IdRank(b) THEN -1 ELSE IF IdRank(a) > IdRank(b) THEN 1 ELSE 0

(***************************************************************************)
(* decimal.js arithmetic.                                                  *)
(***************************************************************************)
Sign(x) == IF x < 0 THEN -1 ELSE IF x > 0 THEN 1 ELSE 0

\* a / b rounded to the nearest integer, ties away from zero (b # 0)
RoundHalfUpDiv(a, b) ==
  LET q == Abs(a) \div Abs(b)
      r == Abs(a) % Abs(b)
  IN  Sign(a) * Sign(b) * (IF 2 * r >= Abs(b) THEN q + 1 ELSE q)

\* what a Decimal division by zero returns: decimal.js does not throw, the
\* quotient is Infinity, -Infinity or NaN.  The model has one such value,
\* larger than every sum of amounts it can form; a value is finite when it
\* is well below it
NonFinite == 100000000

isFinite(x) == 4 * Abs(x) < NonFinite

\* Decimal.dividedBy: the quotient of two amounts, or of an amount and a count
dividedBy(a, b) == IF b = 0 THEN NonFinite ELSE RoundHalfUpDiv(a, b)

\* taxTotal.times(subtotal).dividedBy(totalSubtotal): the product of two
\* amounts counts steps of 1/Unit^2 and is exact; the quotient is rounded
timesDividedBy(a, b, c) == IF c = 0 THEN NonFinite ELSE RoundHalfUpDiv(a * b, c)

\* Decimal.toNumber followed by new Decimal(number)
toNumber(d) == d

\* a faulty rounding: Math.round(n * 100) / 100, a tie goes up
round2HalfUp_MathRound(n) == ((2 * n + Unit) \div (2 * Unit)) * Unit

\* new Decimal(n).toDecimalPlaces(2, ROUND_HALF_UP).toNumber()
round2HalfUp(n) == RoundHalfUpDiv(n, Unit) * Unit

(***************************************************************************)
(* Warnings of compute, one record per message text.                       *)
(***************************************************************************)
\* `Item "${item.name}" has no payers`
NoPayersWarning(itemName) == [kind |-> "NoPayers", item |-> itemName, payer |-> ""]

\* `Unknown payer "${payerId}" for item "${item.name}"`
UnknownPayerWarning(payerId, itemName) ==
  [kind |-> "UnknownPayer", item |-> itemName, payer |-> payerId]

\* 'Cannot allocate tax when no items have payers'
CannotAllocateWarning == [kind |-> "CannotAllocateTax", item |-> "", payer |-> ""]

(***************************************************************************)
(* compute, step 1: personMap.  A JS Map keeps its keys in the order of    *)
(* their first insertion; setting a key again keeps its place.             *)
(***************************************************************************)
\* a faulty map: setting a key again moves it to the end
MapKeys_LastOccurrence(people) ==
  LET last == {k \in 1..Len(people) :
                 \A j \in (k + 1)..Len(people) : people[j].id # people[k].id}
  IN  [j \in 1..Cardinality(last) |->
         people[CHOOSE k \in last : Cardinality({m \in last : m < k}) = j - 1].id]

RECURSIVE MapKeys(_)
MapKeys(people) ==
  IF people = <<>> THEN <<>>
  ELSE LET before == MapKeys(SubSeq(people, 1, Len(people) - 1))
           id == people[Len(people)].id
       IN  IF id \in Range(before) THEN before ELSE Append(before, id)

ZeroPerson == [subtotal |-> 0, taxShare |-> 0, total |-> 0]

InitPersonMap(people) == [id \in Range(MapKeys(people)) |-> ZeroPerson]

(***************************************************************************)
(* compute, step 2: the item loop.  acc is the loop's state: the map's     *)
(* data, the running receiptSubtotal and the warnings pushed so far, and   *)
(* (a history of the run) the divisors of the divisions performed so far.  *)
(***************************************************************************)
\* a faulty split: every payer is charged the whole price
sharePerPayer_FullPrice(item) == item.price

\* itemPrice.dividedBy(item.payers.length)
sharePerPayer(item) == dividedBy(item.price, Len(item.payers))

\* a faulty loop body: an unknown payer is skipped without a warning
CreditPayer_Silent(acc, item, payerId) ==
  IF payerId \in DOMAIN acc.data
  THEN [acc EXCEPT !.data[payerId].subtotal = @ + sharePerPayer(item)]
  ELSE acc

\* the body of `for (const payerId of item.payers)`
CreditPayer(acc, item, payerId) ==
  IF payerId \in DOMAIN acc.data
  THEN [acc EXCEPT !.data[payerId].subtotal = @ + sharePerPayer(item)]
  ELSE [acc EXCEPT !.warnings = Append(@, UnknownPayerWarning(payerId, item.name))]

RECURSIVE CreditPayers(_, _, _)
CreditPayers(acc, item, k) ==
  IF k > Len(item.payers) THEN acc
  ELSE CreditPayers(CreditPayer(acc, item, item.payers[k]), item, k + 1)

\* a faulty loop body: an item without payers is skipped before its price
\* is counted
AllocateItem_SkipsUnassigned(acc, item) ==
  IF Len(item.payers) = 0
  THEN [acc EXCEPT !.warnings = Append(@, NoPayersWarning(item.name))]
  ELSE CreditPayers([acc EXCEPT !.receiptSubtotal = @ + item.price,
                                !.divisors = Append(@, Len(item.payers))], item, 1)

\* the body of `for (const item of draft.items)`
AllocateItem(acc, item) ==
  LET counted == [acc EXCEPT !.receiptSubtotal = @ + item.price]
  IN  IF Len(item.payers) = 0
      THEN [counted EXCEPT !.warnings = Append(@, NoPayersWarning(item.name))]
      ELSE CreditPayers([counted EXCEPT !.divisors = Append(@, Len(item.payers))], item, 1)

RECURSIVE ItemLoop(_, _, _)
ItemLoop(acc, items, i) ==
  IF i > Len(items) THEN acc
  ELSE ItemLoop(AllocateItem(acc, items[i]), items, i + 1)

(***************************************************************************)
(* compute, step 3: tax allocation.                                        *)
(***************************************************************************)
RECURSIVE SumSubtotals(_, _, _)
\* Array.from(personMap.values()).reduce((sum, person) => sum.plus(person.subtotal))
SumSubtotals(data, keys, k) ==
  IF k > Len(keys) THEN 0 ELSE data[keys[k]].subtotal + SumSubtotals(data, keys, k + 1)

\* a faulty test: the tax is not looked at
cannotAllocateTax_AnyTax(totalSubtotal, taxTotal) == totalSubtotal = 0

\* totalSubtotal.isZero() && taxTotal.greaterThan(0)
cannotAllocateTax(totalSubtotal, taxTotal) == totalSubtotal = 0 /\ taxTotal > 0

\* a faulty test: a plain else, every case but the warning's divides
allocatesTax_Else(totalSubtotal, taxTotal) == ~cannotAllocateTax(totalSubtotal, taxTotal)

\* else if (totalSubtotal.greaterThan(0))
allocatesTax(totalSubtotal, taxTotal) ==
  ~cannotAllocateTax(totalSubtotal, taxTotal) /\ totalSubtotal > 0

\* a faulty division: the quotient is truncated (ROUND_DOWN)
taxShareOf_Truncated(taxTotal, subtotal, totalSubtotal) ==
  Sign(taxTotal * subtotal) * Sign(totalSubtotal)
    * (Abs(taxTotal * subtotal) \div Abs(totalSubtotal))

\* taxTotal.times(personData.subtotal).dividedBy(totalSubtotal)
taxShareOf(taxTotal, subtotal, totalSubtotal) ==
  timesDividedBy(taxTotal, subtotal, totalSubtotal)

AllocateTax(data, taxTotal, totalSubtotal) ==
  IF allocatesTax(totalSubtotal, taxTotal)
  THEN [id \in DOMAIN data |->
          [data[id] EXCEPT !.taxShare = taxShareOf(taxTotal, data[id].subtotal, totalSubtotal)]]
  ELSE data

\* the divisors of the divisions the tax allocation performs: one by
\* totalSubtotal per entry of personMap
TaxDivisors(keys, taxTotal, totalSubtotal) ==
  IF allocatesTax(totalSubtotal, taxTotal)
  THEN [k \in 1..Len(keys) |-> totalSubtotal]
  ELSE <<>>

\* personData.total = personData.subtotal.plus(personData.taxShare)
SetTotals(data) ==
  [id \in DOMAIN data |-> [data[id] EXCEPT !.total = data[id].subtotal + data[id].taxShare]]

(***************************************************************************)
(* compute, step 5: round to cents, keeping the pre-rounding values.       *)
(***************************************************************************)
\* the body of `for (const [personId, personData] of personMap)`
Breakdown(personId, personData) ==
  [personId |-> personId,
   subtotal |-> round2HalfUp(toNumber(personData.subtotal)),
   taxShare |-> round2HalfUp(toNumber(personData.taxShare)),
   total |-> round2HalfUp(toNumber(personData.total)),
   fractional |-> [subtotal |-> toNumber(personData.subtotal),
                   taxShare |-> toNumber(personData.taxShare),
                   total |-> toNumber(personData.total)]]

RoundPeople(data, keys) == [k \in 1..Len(keys) |-> Breakdown(keys[k], data[keys[k]])]

RECURSIVE SumTotals(_, _)
\* totalRoundedSum, and the sum of perPerson[].total of a result
SumTotals(perPerson, k) ==
  IF k > Len(perPerson) THEN 0 ELSE perPerson[k].total + SumTotals(perPerson, k + 1)

(***************************************************************************)
(* compute, steps 6 and 7: penny reconciliation.                           *)
(***************************************************************************)
\* |_fractional.total - total|
Remainder(b) == Abs(b.fractional.total - b.total)

\* a faulty comparator: ties are broken by descending person id
compareBreakdowns_IdDescending(a, b) ==
  LET remainderDiff == toNumber(Remainder(b) - Remainder(a))
  IN  IF remainderDiff # 0
      THEN (IF remainderDiff > 0 THEN 1 ELSE -1)
      ELSE localeCompare(b.personId, a.personId)

\* the comparator of sortedBreakdowns: negative when a sorts before b
compareBreakdowns(a, b) ==
  LET remainderDiff == toNumber(Remainder(b) - Remainder(a))
  IN  IF remainderDiff # 0
      THEN (IF remainderDiff > 0 THEN 1 ELSE -1)
      ELSE localeCompare(a.personId, b.personId)

RemoveAt(s, i) == SubSeq(s, 1, i - 1) \o SubSeq(s, i + 1, Len(s))

RECURSIVE sortBreakdowns(_)
\* [...perPersonRounded].sort(comparator): the first of the least elements
\* goes first (Array.prototype.sort is stable)
sortBreakdowns(s) ==
  IF s = <<>> THEN <<>>
  ELSE LET i == CHOOSE i \in 1..Len(s) :
                  \A j \in 1..Len(s) :
                    \/ compareBreakdowns(s[i], s[j]) < 0
                    \/ compareBreakdowns(s[i], s[j]) = 0 /\ i <= j
       IN  <<s[i]>> \o sortBreakdowns(RemoveAt(s, i))

\* a faulty direction: a cent is always added
deltaDirection_AlwaysUp(remainingDelta) == Cents(1)

\* remainingDelta > 0 ? 0.01 : -0.01
deltaDirection(remainingDelta) == IF remainingDelta > 0 THEN Cents(1) ELSE -Cents(1)

\* a faulty break test: the loop never stops early
loopBreaks_Never(remainingDelta) == Abs(remainingDelta) < 0

\* Math.abs(remainingDelta) < 0.005
loopBreaks(remainingDelta) == 2 * Abs(remainingDelta) < Cents(1)

IndexOfPerson(perPerson, personId) ==
  CHOOSE k \in 1..Len(perPerson) : perPerson[k].personId = personId

\* a faulty loop body: the adjustment is applied and not recorded
ApplyResidual_NotRecorded(st, breakdown, direction) ==
  [perPerson |-> [st.perPerson EXCEPT
                    ![CHOOSE k \in 1..Len(st.perPerson) :
                        st.perPerson[k].personId = breakdown.personId].total = @ + direction],
   residualApplied |-> st.residualApplied,
   remainingDelta |-> st.remainingDelta - direction]

\* the body of `for (const breakdown of sortedBreakdowns)` after the break
\* test: the breakdown is the object perPersonRounded holds, so the new
\* total shows in the result
ApplyResidual(st, breakdown, direction) ==
  LET k == IndexOfPerson(st.perPerson, breakdown.personId)
  IN  [perPerson |-> [st.perPerson EXCEPT ![k].total = round2HalfUp(@ + direction)],
       residualApplied |-> Append(st.residualApplied,
                                  [personId |-> breakdown.personId, delta |-> direction]),
       remainingDelta |-> st.remainingDelta - direction]

RECURSIVE ResidualLoop(_, _, _, _)
ResidualLoop(st, sorted, k, direction) ==
  IF k > Len(sorted) \/ loopBreaks(st.remainingDelta) THEN st
  ELSE ResidualLoop(ApplyResidual(st, sorted[k], direction), sorted, k + 1, direction)

\* delta = new Decimal(grandRounded).minus(totalRoundedSum)
DeltaOf(receiptGrand, perPersonRounded) ==
  round2HalfUp(toNumber(receiptGrand)) - SumTotals(perPersonRounded, 1)

Reconcile(perPersonRounded, delta) ==
  LET st0 == [perPerson |-> perPersonRounded, residualApplied |-> <<>>,
              remainingDelta |-> toNumber(delta)]
  IN  IF delta # 0
      THEN ResidualLoop(st0, sortBreakdowns(perPersonRounded), 1,
                        deltaDirection(toNumber(delta)))
      ELSE st0

(***************************************************************************)
(* compute.                                                                *)
(***************************************************************************)
\* the state of the run before the item loop
InitAcc(d) ==
  [data |-> InitPersonMap(d.people), receiptSubtotal |-> 0, warnings |-> <<>>,
   divisors |-> <<>>]

\* the divisors of every division compute performs on d, in order
DivisorsOf(d) ==
  LET keys == MapKeys(d.people)
      acc == ItemLoop(InitAcc(d), d.items, 1)
  IN  acc.divisors \o TaxDivisors(keys, d.taxTotal, SumSubtotals(acc.data, keys, 1))

\* perPersonRounded as the rounding loop leaves it, before the reconciliation
perPersonRoundedOf(d) ==
  LET keys == MapKeys(d.people)
      acc == ItemLoop(InitAcc(d), d.items, 1)
      totalSubtotal == SumSubtotals(acc.data, keys, 1)
  IN  RoundPeople(SetTotals(AllocateTax(acc.data, d.taxTotal, totalSubtotal)), keys)

compute(d) ==
  LET keys == MapKeys(d.people)
      acc == ItemLoop(InitAcc(d), d.items, 1)
      taxTotal == d.taxTotal
      totalSubtotal == SumSubtotals(acc.data, keys, 1)
      pushed == IF cannotAllocateTax(totalSubtotal, taxTotal)
                THEN Append(acc.warnings, CannotAllocateWarning)
                ELSE acc.warnings
      data == SetTotals(AllocateTax(acc.data, taxTotal, totalSubtotal))
      perPersonRounded == RoundPeople(data, keys)
      receiptGrand == acc.receiptSubtotal + taxTotal
      rec == Reconcile(perPersonRounded, DeltaOf(receiptGrand, perPersonRounded))
  IN  [perPerson |-> rec.perPerson,
       receiptSubtotal |-> toNumber(acc.receiptSubtotal),
       receiptTax |-> toNumber(taxTotal),
       receiptGrand |-> toNumber(receiptGrand),
       residualApplied |-> rec.residualApplied,
       warnings |-> pushed]

(***************************************************************************)
(* validateDraft.  Its warnings are records like those of compute; the     *)
(* 'unknown payer' text is the same in both.                               *)
(***************************************************************************)
\* 'Tax cannot be negative'
NegativeTaxWarning == [kind |-> "NegativeTax", item |-> "", payer |-> ""]

\* `Item "${item.name}" has negative price`
NegativePriceWarning(itemName) ==
  [kind |-> "NegativePrice", item |-> itemName, payer |-> ""]

\* `Item "${item.name}" has no payers assigned - assign payers to include in calculations`
NoPayersAssignedWarning(itemName) ==
  [kind |-> "NoPayersAssigned", item |-> itemName, payer |-> ""]

\* `Duplicate person IDs: ${duplicateIds.join(', ')}`
DuplicateIdsWarning(duplicateIds) ==
  [kind |-> "DuplicateIds", item |-> "", payer |-> "", ids |-> duplicateIds]

\* draft.people.find(p => p.id === payerId), as a truth value
findPerson(people, payerId) == \E k \in 1..Len(people) : people[k].id = payerId

\* the body of `for (const payerId of item.payers)`
ValidatePayer(ws, people, item, payerId) ==
  IF ~findPerson(people, payerId)
  THEN Append(ws, UnknownPayerWarning(payerId, item.name))
  ELSE ws

RECURSIVE ValidatePayers(_, _, _, _)
ValidatePayers(ws, people, item, k) ==
  IF k > Len(item.payers) THEN ws
  ELSE ValidatePayers(ValidatePayer(ws, people, item, item.payers[k]), people, item, k + 1)

\* a faulty loop body: the payers are looked at before the price
ValidateItem_PayersFirst(ws, people, item) ==
  LET noPayers == IF Len(item.payers) = 0
                  THEN Append(ws, NoPayersAssignedWarning(item.name))
                  ELSE ws
      priced == IF item.price < 0
                THEN Append(noPayers, NegativePriceWarning(item.name))
                ELSE noPayers
  IN  ValidatePayers(priced, people, item, 1)

\* the body of `for (const item of draft.items)`
ValidateItem(ws, people, item) ==
  LET priced == IF item.price < 0
                THEN Append(ws, NegativePriceWarning(item.name))
                ELSE ws
      noPayers == IF Len(item.payers) = 0
                  THEN Append(priced, NoPayersAssignedWarning(item.name))
                  ELSE priced
  IN  ValidatePayers(noPayers, people, item, 1)

RECURSIVE ValidateItems(_, _, _, _)
ValidateItems(ws, people, items, i) ==
  IF i > Len(items) THEN ws
  ELSE ValidateItems(ValidateItem(ws, people, items[i]), people, items, i + 1)

\* Array.prototype.indexOf, counting from 1 (the value is in the array)
indexOf(s, x) == CHOOSE i \in 1..Len(s) : s[i] = x /\ \A j \in 1..(i - 1) : s[j] # x

RECURSIVE duplicateIdsFrom(_, _)
\* the filter, from position index on: an id is kept where it is not at its
\* first position
duplicateIdsFrom(personIds, index) ==
  IF index > Len(personIds) THEN <<>>
  ELSE (IF indexOf(personIds, personIds[index]) # index
        THEN <<personIds[index]>> ELSE <<>>)
       \o duplicateIdsFrom(personIds, index + 1)

\* personIds.filter((id, index) => personIds.indexOf(id) !== index)
duplicateIdsOf(personIds) ==
  duplicateIdsFrom(personIds, 1)

\* a faulty test: a single repeated id goes unreported
reportsDuplicates_MoreThanOne(duplicateIds) == Len(duplicateIds) > 1

\* duplicateIds.length > 0
reportsDuplicates(duplicateIds) == Len(duplicateIds) > 0

validateDraft(d) ==
  LET taxed == IF d.taxTotal < 0 THEN <<NegativeTaxWarning>> ELSE <<>>
      itemized == ValidateItems(taxed, d.people, d.items, 1)
      personIds == [k \in 1..Len(d.people) |-> d.people[k].id]
      duplicateIds == duplicateIdsOf(personIds)
  IN  IF reportsDuplicates(duplicateIds)
      THEN Append(itemized, DuplicateIdsWarning(duplicateIds))
      ELSE itemized

(***************************************************************************)
(* The drafts compute is applied to: the two scenarios of the README,      *)
(* receipts as the editor builds them (up to MaxItems items) and           *)
(* single-item receipts as a JSON import may supply them (people and       *)
(* payers in any order, repeated, unknown).                                *)
(***************************************************************************)
Person(id) == [id |-> id, name |-> id]

Item(k, price, payers) ==
  [id |-> k, name |-> ItemNames[k], price |-> Cents(price), payers |-> payers]

\* the people lists and payer lists of a receipt edited in the application:
\* distinct ids in ascending order (ids are `person_${Date.now()}`, appended
\* as they are created), the payers of an item a set of ids
DistinctLists == {t \in SeqsUpTo(Ids, Cardinality(Ids)) : IsInjective(t)}

AscendingLists ==
  {t \in DistinctLists : \A i, j \in 1..Len(t) : i < j => IdRank(t[i]) < IdRank(t[j])}

PeopleOf(s) == [k \in 1..Len(s) |-> Person(s[k])]

ItemLists ==
  {[k \in 1..Len(s) |-> Item(k, s[k][1], s[k][2])] :
     s \in SeqsUpTo(Prices \X AscendingLists, MaxItems)}

\* the lists an imported JSON file may hold: ids repeated, in any order
PeopleLists == SeqsUpTo(Ids, MaxPeople)

PayerLists == SeqsUpTo(Ids, MaxPayers)

Draft(people, items, tax) ==
  [people |-> PeopleOf(people), items |-> items, taxTotal |-> Cents(tax)]

\* Scenario A: Kevin, Alice, Bob; Oranges 3.00 for all, Apple 1.50 for Kevin; tax 0.36
ScenarioA ==
  [people |-> <<[id |-> "kev", name |-> "Kevin"], [id |-> "ali", name |-> "Alice"],
                [id |-> "bob", name |-> "Bob"]>>,
   items |-> <<[id |-> 1, name |-> "Oranges", price |-> Cents(300),
                payers |-> <<"kev", "ali", "bob">>],
               [id |-> 2, name |-> "Apple", price |-> Cents(150), payers |-> <<"kev">>]>>,
   taxTotal |-> Cents(36)]

\* Scenario B: A, B, C; Coffee Beans 10.00 split equally between A and B; tax 0.83
ScenarioB ==
  [people |-> <<Person("A"), Person("B"), Person("C")>>,
   items |-> <<[id |-> 1, name |-> "Coffee Beans", price |-> Cents(1000),
                payers |-> <<"A", "B">>]>>,
   taxTotal |-> Cents(83)]

\* result: null of the initial state
NoResult == [null |-> TRUE]

\* no file is being read
NoUpload == [null |-> TRUE]

\* no alert was shown
NoAlert == ""

\* useState of ReceiptDraftEditor: the add form is blank (filled: a name and
\* a price are typed in) and no ItemRow is mounted
initialEditor == [newItem |-> [filled |-> FALSE, payers |-> <<>>], rows |-> <<>>]

(***************************************************************************)
(* The specification: validateDraft and compute applied to a draft, as the *)
(* reducer applies them to the new draft of every action.                  *)
(***************************************************************************)
Init ==
  /\ \/ draft \in {ScenarioA, ScenarioB}
     \/ \E p \in AscendingLists, i \in ItemLists, t \in Taxes : draft = Draft(p, i, t)
     \/ \E p \in PeopleLists, price \in Prices, payers \in PayerLists, t \in Taxes :
          draft = Draft(p, <<Item(1, price, payers)>>, t)
  /\ result = NoResult
  /\ warnings = <<>>
  /\ pc = "start"
  /\ upload = NoUpload
  /\ alert = NoAlert
  /\ editor = initialEditor

Validate ==
  /\ pc = "start"
  /\ warnings' = validateDraft(draft)
  /\ pc' = "validated"
  /\ UNCHANGED <<draft, result, upload, alert, editor>>

Compute ==
  /\ pc = "validated"
  /\ result' = compute(draft)
  /\ pc' = "done"
  /\ UNCHANGED <<draft, warnings, upload, alert, editor>>

Next == Validate \/ Compute

Spec == Init /\ [][Next]_vars

Done == pc = "done"

(***************************************************************************)
(* The reducer of the application (App.tsx).  A state is the record of     *)
(* draft, result and warnings; an action is a record with its type and     *)
(* its payload.                                                            *)
(***************************************************************************)
\* initialState
initialDraft == [people |-> <<>>, items |-> <<>>, taxTotal |-> 0]

initialState == [draft |-> initialDraft, result |-> NoResult, warnings |-> <<>>]

\* case 'ADD_PERSON'
addPerson(d, person) == [d EXCEPT !.people = Append(d.people, person)]

\* a faulty case: the person is removed from the people only
removePerson_NoCascade(d, personId) ==
  [d EXCEPT !.people = SelectSeq(d.people, LAMBDA p : p.id # personId)]

\* case 'REMOVE_PERSON'
removePerson(d, personId) ==
  [d EXCEPT
     !.people = SelectSeq(d.people, LAMBDA p : p.id # personId),
     !.items = [i \in 1..Len(d.items) |->
                 [d.items[i] EXCEPT !.payers = SelectSeq(d.items[i].payers,
                                                         LAMBDA payerId : payerId # personId)]]]

\* case 'UPDATE_PERSON'
updatePerson(d, person) ==
  [d EXCEPT !.people = [k \in 1..Len(d.people) |->
                          IF d.people[k].id = person.id THEN person ELSE d.people[k]]]

\* case 'ADD_ITEM'
addItem(d, item) == [d EXCEPT !.items = Append(d.items, item)]

\* case 'UPDATE_ITEM'
updateItem(d, item) ==
  [d EXCEPT !.items = [i \in 1..Len(d.items) |->
                         IF d.items[i].id = item.id THEN item ELSE d.items[i]]]

\* case 'REMOVE_ITEM'
removeItem(d, itemId) == [d EXCEPT !.items = SelectSeq(d.items, LAMBDA it : it.id # itemId)]

\* case 'UPDATE_TAX'
updateTax(d, tax) == [d EXCEPT !.taxTotal = tax]

\* case 'UPDATE_RECEIPT_META': { ...state.draft, ...action.meta }
updateReceiptMeta(d, meta) ==
  [f \in DOMAIN d \cup DOMAIN meta |-> IF f \in DOMAIN meta THEN meta[f] ELSE d[f]]

\* a faulty tail: the result of the previous state is kept
recompute_KeepsResult(state, newDraft) ==
  [draft |-> newDraft, result |-> state.result, warnings |-> validateDraft(newDraft)]

\* the tail of appReducer: validateDraft and compute on the new draft
recompute(state, newDraft) ==
  [draft |-> newDraft, result |-> compute(newDraft), warnings |-> validateDraft(newDraft)]

ActionTypes == {"ADD_PERSON", "REMOVE_PERSON", "UPDATE_PERSON", "ADD_ITEM", "UPDATE_ITEM",
                "REMOVE_ITEM", "UPDATE_TAX", "UPDATE_RECEIPT_META", "LOAD_DRAFT"}

appReducer(state, action) ==
  IF action.type \notin ActionTypes THEN state
  ELSE recompute(state,
         CASE action.type = "ADD_PERSON" -> addPerson(state.draft, action.person)
           [] action.type = "REMOVE_PERSON" -> removePerson(state.draft, action.personId)
           [] action.type = "UPDATE_PERSON" -> updatePerson(state.draft, action.person)
           [] action.type = "ADD_ITEM" -> addItem(state.draft, action.item)
           [] action.type = "UPDATE_ITEM" -> updateItem(state.draft, action.item)
           [] action.type = "REMOVE_ITEM" -> removeItem(state.draft, action.itemId)
           [] action.type = "UPDATE_TAX" -> updateTax(state.draft, action.tax)
           [] action.type = "UPDATE_RECEIPT_META" -> updateReceiptMeta(state.draft, action.meta)
           [] action.type = "LOAD_DRAFT" -> action.draft)

\* dispatch(action): the state becomes appReducer(state, action)
Dispatch(action) ==
  \E state \in {appReducer([draft |-> draft, result |-> result, warnings |-> warnings],
                            action)} :
    /\ draft' = state.draft
    /\ result' = state.result
    /\ warnings' = state.warnings

(***************************************************************************)
(* The specification of the reducer: the actions the panels dispatch, in   *)
(* any order, with their payloads drawn from small sets.                   *)
(***************************************************************************)
MaxAppItems == 2

AppIds == {"A", "B"}

\* the people list grows to as many entries as there are ids
MaxAppPeople == Cardinality(AppIds)

\* the people of ADD_PERSON and UPDATE_PERSON (A can be renamed)
AppPersons == {Person("A"), Person("B"), [id |-> "A", name |-> "Z"]}

AppPayers == {<<>>, <<"B", "A">>}

AppItems == {Item(k, 100, payers) : k \in {1, 2}, payers \in AppPayers}

AppTaxes == {Cents(0), Cents(1)}

AppMetas == {[storeName |-> "TJ"]}

\* a draft as an import may load it: a repeated person, an unknown payer
LoadableDrafts == {Draft(<<"B", "B">>, <<Item(2, 100, <<"B", "A">>)>>, 1)}

ReducerInit ==
  /\ draft = initialState.draft
  /\ result = initialState.result
  /\ warnings = initialState.warnings
  /\ pc = "idle"
  /\ upload = NoUpload
  /\ alert = NoAlert
  /\ editor = initialEditor

\* onAddPerson
AddPerson(person) ==
  /\ Len(draft.people) < MaxAppPeople
  /\ Dispatch([type |-> "ADD_PERSON", person |-> person])
  /\ UNCHANGED <<pc, upload, alert, editor>>

\* onRemovePerson
RemovePerson(personId) ==
  /\ Dispatch([type |-> "REMOVE_PERSON", personId |-> personId])
  /\ UNCHANGED <<pc, upload, alert, editor>>

\* onUpdatePerson
UpdatePerson(person) ==
  /\ Dispatch([type |-> "UPDATE_PERSON", person |-> person])
  /\ UNCHANGED <<pc, upload, alert, editor>>

\* onAddItem
AddItem(item) ==
  /\ Len(draft.items) < MaxAppItems
  /\ Dispatch([type |-> "ADD_ITEM", item |-> item])
  /\ UNCHANGED <<pc, upload, alert, editor>>

\* onUpdateItem
UpdateItem(item) ==
  /\ Dispatch([type |-> "UPDATE_ITEM", item |-> item])
  /\ UNCHANGED <<pc, upload, alert, editor>>

\* onRemoveItem
RemoveItem(itemId) ==
  /\ Dispatch([type |-> "REMOVE_ITEM", itemId |-> itemId])
  /\ UNCHANGED <<pc, upload, alert, editor>>

\* onUpdateTax
UpdateTax(tax) ==
  /\ Dispatch([type |-> "UPDATE_TAX", tax |-> tax])
  /\ UNCHANGED <<pc, upload, alert, editor>>

\* onUpdateMeta
UpdateMeta(meta) ==
  /\ Dispatch([type |-> "UPDATE_RECEIPT_META", meta |-> meta])
  /\ UNCHANGED <<pc, upload, alert, editor>>

\* onLoadDraft
LoadDraft(d) ==
  /\ Dispatch([type |-> "LOAD_DRAFT", draft |-> d])
  /\ UNCHANGED <<pc, upload, alert, editor>>

ReducerNext ==
  \/ \E person \in AppPersons : AddPerson(person)
  \/ \E personId \in AppIds : RemovePerson(personId)
  \/ \E person \in AppPersons : UpdatePerson(person)
  \/ \E item \in AppItems : AddItem(item)
  \/ \E item \in AppItems : UpdateItem(item)
  \/ \E itemId \in {1, 2} : RemoveItem(itemId)
  \/ \E tax \in AppTaxes : UpdateTax(tax)
  \/ \E meta \in AppMetas : UpdateMeta(meta)
  \/ \E d \in LoadableDrafts : LoadDraft(d)

ReducerSpec == ReducerInit /\ [][ReducerNext]_vars

(***************************************************************************)
(* Import (parsing.ts, ImportExportPanel.tsx).  A text is the sequence of  *)
(* its lines, a line the sequence of its tokens: words and the separator   *)
(* ",".  A parser returns [ok |-> TRUE, draft |-> d], or                   *)
(* [ok |-> FALSE, message |-> m] where the code throws Error(m).           *)
(***************************************************************************)
Returned(d) == [ok |-> TRUE, draft |-> d]

Thrown(message) == [ok |-> FALSE, message |-> message]

\* String.prototype.toLowerCase, on the words of the model
toLowerCase(word) ==
  CASE word = "Ann" -> "ann"
    [] word = "Bob" -> "bob"
    [] word = "A" -> "a"
    [] word = "B" -> "b"
    [] word = "CSV" -> "csv"
    [] OTHER -> word

\* String.prototype.trim, on the words of the model
trim(word) == IF word = " bob" THEN "bob" ELSE word

\* parseFloat, on the words of the model ([nan |-> TRUE]: NaN)
parseFloat(word) ==
  CASE word = "1.00" -> [nan |-> FALSE, value |-> Cents(100)]
    [] word = "3.00" -> [nan |-> FALSE, value |-> Cents(300)]
    [] word = "-1.00" -> [nan |-> FALSE, value |-> -Cents(100)]
    [] OTHER -> [nan |-> TRUE, value |-> 0]

RECURSIVE split(_, _)
\* String.prototype.split(separator): the pieces of a text between the
\* separators, each the word it consists of ('' when there is none)
split(tokens, separator) ==
  IF separator \notin Range(tokens)
  THEN <<IF tokens = <<>> THEN "" ELSE tokens[1]>>
  ELSE LET i == CHOOSE i \in 1..Len(tokens) :
                  tokens[i] = separator /\ \A j \in 1..(i - 1) : tokens[j] # separator
       IN  <<IF i = 1 THEN "" ELSE tokens[1]>>
             \o split(SubSeq(tokens, i + 1, Len(tokens)), separator)

\* csv.trim().split('\n'): an empty text has one empty line
splitLines(text) == IF text = <<>> THEN << <<>> >> ELSE text

\* line.split(',').map(v => v.trim())
cellsOf(line) == [k \in 1..Len(split(line, ",")) |-> trim(split(line, ",")[k])]

\* row[header] after headers.forEach: the value under the last column of
\* that name the row reaches, '' when there is none
cellOf(headers, values, column) ==
  LET at == {k \in 1..Len(headers) : headers[k] = column /\ k <= Len(values)}
  IN  IF at = {} THEN "" ELSE values[CHOOSE k \in at : \A m \in at : m <= k]

\* peopleBank.find(p => p.name.toLowerCase() === payerName.toLowerCase() || p.id === payerName)
findPayer(peopleBank, payerName) ==
  LET at == {k \in 1..Len(peopleBank) :
               \/ toLowerCase(peopleBank[k].name) = toLowerCase(payerName)
               \/ peopleBank[k].id = payerName}
  IN  IF at = {} THEN <<>> ELSE <<peopleBank[CHOOSE k \in at : \A m \in at : k <= m]>>

RECURSIVE ResolvePayers(_, _, _)
\* the body of `for (const payerName of payerNames)`, from the k-th name on
ResolvePayers(peopleBank, payerNames, k) ==
  IF k > Len(payerNames) THEN <<>>
  ELSE LET person == findPayer(peopleBank, payerNames[k])
       IN  (IF person # <<>> THEN <<person[1].id>> ELSE <<>>)
             \o ResolvePayers(peopleBank, payerNames, k + 1)

\* the payers of a row: row.payers.split(',').map(p => p.trim()).filter(p => p),
\* each name looked up in the people bank
payersOfRow(peopleBank, payersCell) ==
  IF payersCell # "" /\ trim(payersCell) # ""
  THEN ResolvePayers(peopleBank,
                     SelectSeq(cellsOf(<<payersCell>>), LAMBDA payerName : payerName # ""), 1)
  ELSE <<>>

RECURSIVE RowLoop(_, _, _, _)
\* `for (let i = 1; i < lines.length; i++)`: the items pushed from the line
\* of (zero-based) index i on
RowLoop(lines, headers, peopleBank, i) ==
  IF i + 1 > Len(lines) THEN <<>>
  ELSE LET values == cellsOf(lines[i + 1])
           price == parseFloat(cellOf(headers, values, "price"))
           rest == RowLoop(lines, headers, peopleBank, i + 1)
       IN  IF price.nan \/ price.value < 0
           THEN rest
           ELSE <<[id |-> i, name |-> cellOf(headers, values, "name"),
                   price |-> price.value,
                   payers |-> payersOfRow(peopleBank, cellOf(headers, values, "payers"))]>>
                  \o rest

\* a faulty test: a text with a header and no row is accepted
tooFewLines_HeaderOnly(lines) == Len(lines) < 1

\* lines.length < 2
tooFewLines(lines) == Len(lines) < 2

parseCsvToDraft(csv, peopleBank) ==
  LET lines == splitLines(csv)
      headers == cellsOf(lines[1])
  IN  IF tooFewLines(lines)
      THEN Thrown("CSV must have header and at least one data row")
      ELSE IF "name" \notin Range(headers) THEN Thrown("Missing required column: name")
      ELSE IF "price" \notin Range(headers) THEN Thrown("Missing required column: price")
      ELSE Returned([people |-> peopleBank,
                     items |-> RowLoop(lines, headers, peopleBank, 1),
                     taxTotal |-> 0])

\* a || b for strings and for numbers: a when it is there and truthy
truthy(object, field, falsy) == field \in DOMAIN object /\ object[field] # falsy

\* data.people.map: a string is a person's id and name; an object gives id
\* and name, with defaults (JSON strings are [string |-> s])
personOfJson(p, index) ==
  IF "string" \in DOMAIN p THEN [id |-> p.string, name |-> p.string]
  ELSE [id |-> IF truthy(p, "id", "") THEN p.id
               ELSE <<"person_0", "person_1", "person_2">>[index + 1],
        name |-> IF truthy(p, "name", "") THEN p.name
                 ELSE IF truthy(p, "id", "") THEN p.id
                 ELSE <<"Person 1", "Person 2", "Person 3">>[index + 1]]

\* data.items.map: id, name, price || total || total_price || 0, and the
\* payers array or the keys of shares (shares is modelled by its keys)
itemOfJson(item, index) ==
  [id |-> IF truthy(item, "id", 0) THEN item.id ELSE index,
   name |-> IF truthy(item, "name", "") THEN item.name
            ELSE <<"Item 1", "Item 2", "Item 3">>[index + 1],
   price |-> IF truthy(item, "price", 0) THEN item.price
             ELSE IF truthy(item, "total", 0) THEN item.total
             ELSE IF truthy(item, "total_price", 0) THEN item.total_price ELSE 0,
   payers |-> IF "payers" \in DOMAIN item THEN item.payers
              ELSE IF "shares" \in DOMAIN item THEN item.shares ELSE <<>>]

\* json is what JSON.parse returned: [value |-> v] for a value that is no
\* object (a number, null), or the object itself
parseJsonToDraft(json) ==
  IF "value" \in DOMAIN json THEN Thrown("Invalid JSON format")
  ELSE IF "items" \notin DOMAIN json THEN Thrown("items must be an array")
  ELSE IF "people" \notin DOMAIN json THEN Thrown("people must be an array")
  ELSE Returned([people |-> [k \in 1..Len(json.people) |-> personOfJson(json.people[k], k - 1)],
                 items |-> [k \in 1..Len(json.items) |-> itemOfJson(json.items[k], k - 1)],
                 taxTotal |-> IF truthy(json, "taxTotal", 0) THEN json.taxTotal
                              ELSE IF "tax" \in DOMAIN json /\ truthy(json.tax, "amount", 0)
                              THEN json.tax.amount ELSE 0])

\* JSON.parse(text): a file holds its text as lines and, when the text is
\* JSON, as the value it denotes; any other text is a syntax error
JSONparse(file) ==
  IF "json" \in DOMAIN file THEN [ok |-> TRUE, value |-> file.json]
  ELSE Thrown("SyntaxError")

\* file.name.toLowerCase().endsWith(suffix): extension is what follows the
\* last dot of the name
nameEndsWith(file, suffix) == toLowerCase(file.extension) = suffix

\* the try block of handleFileUpload
importFile(file, existingPeople) ==
  IF nameEndsWith(file, "csv") THEN parseCsvToDraft(file.lines, existingPeople)
  ELSE IF nameEndsWith(file, "json")
  THEN (IF JSONparse(file).ok THEN parseJsonToDraft(JSONparse(file).value) ELSE JSONparse(file))
  ELSE Thrown("Unsupported file type. Please upload a CSV or JSON file.")

(***************************************************************************)
(* The specification of the import: handleFileUpload reads the file        *)
(* (await file.text()) and then parses it and loads the draft, or shows an *)
(* alert; the people bank is edited meanwhile.  The handler holds the      *)
(* draft of the render that created it.                                    *)
(***************************************************************************)
\* a line of words separated by commas
Line(words) ==
  [k \in 1..(2 * Len(words) - 1) |-> IF k % 2 = 1 THEN words[(k + 1) \div 2] ELSE ","]

TextFile(extension, lines) == [extension |-> extension, lines |-> lines]

\* a file whose text is the JSON of the value json (one line, no commas kept)
JsonFile(extension, json) == [extension |-> extension, lines |-> << <<"{">> >>, json |-> json]

ImportPersons == {[id |-> "A", name |-> "Ann"], [id |-> "B", name |-> "Bob"]}

\* name,price,payers with two payers, an unparseable and a negative price,
\* a name to trim and an unknown name
PayersCsv ==
  TextFile("csv", <<Line(<<"name", "price", "payers">>),
                    Line(<<"Pizza", "3.00", "ann", "B">>),
                    Line(<<"Soda", "abc", "Ann">>),
                    Line(<<"Tea", "-1.00", "Bob">>),
                    Line(<<"Pie", "1.00", " bob", "zed">>)>>)

PlainCsv == TextFile("CSV", <<Line(<<"name", "price">>), Line(<<"Pizza", "1.00">>)>>)

HeaderOnlyCsv == TextFile("csv", <<Line(<<"name", "price">>)>>)

EmptyCsv == TextFile("csv", <<>>)

NoPriceCsv == TextFile("csv", <<Line(<<"name", "payers">>), Line(<<"Pizza", "ann">>)>>)

NoNameCsv == TextFile("csv", <<Line(<<"price", "payers">>), Line(<<"1.00", "ann">>)>>)

TextDocument == TextFile("txt", <<Line(<<"name", "price">>), Line(<<"Pizza", "1.00">>)>>)

BrokenJson == TextFile("json", << <<"{">> >>)

NumberJson == JsonFile("json", [value |-> 5])

NoItemsJson == JsonFile("json", [people |-> <<[string |-> "A"]>>])

NoPeopleJson == JsonFile("json", [items |-> <<>>])

ReceiptJson ==
  JsonFile("json",
           [people |-> <<[string |-> "A"], [id |-> "B", name |-> "Bob"]>>,
            items |-> <<[id |-> 1, name |-> "x", total |-> Cents(100),
                         payers |-> <<"A", "C">>]>>,
            taxTotal |-> Cents(1)])

Files == {PayersCsv, PlainCsv, HeaderOnlyCsv, EmptyCsv, NoPriceCsv, NoNameCsv,
          TextDocument, BrokenJson, NumberJson, NoItemsJson, NoPeopleJson, ReceiptJson}

\* handleFileUpload up to `await file.text()`
StartUpload(file) ==
  /\ pc = "idle"
  /\ pc' = "reading"
  /\ upload' = [file |-> file, people |-> draft.people]
  /\ UNCHANGED <<draft, result, warnings, alert, editor>>

\* handleFileUpload after the text is read: the draft is parsed and loaded
FinishUploadLoaded ==
  /\ pc = "reading"
  /\ importFile(upload.file, upload.people).ok
  /\ Dispatch([type |-> "LOAD_DRAFT", draft |-> importFile(upload.file, upload.people).draft])
  /\ pc' = "idle"
  /\ upload' = NoUpload
  /\ UNCHANGED <<alert, editor>>

\* handleFileUpload after the text is read: the catch block
FinishUploadFailed ==
  /\ pc = "reading"
  /\ ~importFile(upload.file, upload.people).ok
  /\ alert' = importFile(upload.file, upload.people).message
  /\ pc' = "idle"
  /\ upload' = NoUpload
  /\ UNCHANGED <<draft, result, warnings, editor>>

\* the new names the people bank gives a person
ImportRenames == {[id |-> "A", name |-> "Bob"]}

ImportNext ==
  \/ \E file \in Files : StartUpload(file)
  \/ FinishUploadLoaded
  \/ FinishUploadFailed
  \/ \E person \in ImportPersons : AddPerson(person)
  \/ \E person \in ImportRenames : UpdatePerson(person)
  \/ \E personId \in AppIds : RemovePerson(personId)

ImportSpec == ReducerInit /\ [][ImportNext]_vars

(***************************************************************************)
(* The editor: ReceiptDraftEditor with its add form (newItem), one ItemRow *)
(* per item of the draft (keyed by the item's id, so a row keeps its state *)
(* while its item is in the draft) and the PayerSelector both use.  The    *)
(* name, price and category inputs of a row are left out: they do not      *)
(* touch payers.                                                           *)
(***************************************************************************)
MaxEditorItems == 1

\* togglePayer: the new value passed to onChange
togglePayer(selectedPayers, personId) ==
  IF personId \in Range(selectedPayers)
  THEN SelectSeq(selectedPayers, LAMBDA id : id # personId)
  ELSE Append(selectedPayers, personId)

\* selectAll: people.map(p => p.id)
selectAll(people) == [k \in 1..Len(people) |-> people[k].id]

\* selectNone
selectNone == <<>>

\* the chips and buttons are rendered only when there are people
selectorShown(people) == Len(people) # 0

\* draft.items.find by id: the item prop of the row keyed itemId
itemProp(itemId) ==
  draft.items[CHOOSE i \in 1..Len(draft.items) : draft.items[i].id = itemId]

\* `item_${Date.now()}`: an id no item of the draft has
freshItemId == CHOOSE k \in 1..MaxEditorItems :
                 \A i \in 1..Len(draft.items) : draft.items[i].id # k

\* the add form after a name and a price are typed in
TypeNewItem ==
  /\ ~editor.newItem.filled
  /\ editor' = [editor EXCEPT !.newItem.filled = TRUE]
  /\ UNCHANGED <<draft, result, warnings, pc, upload, alert>>

\* a chip of the add form's PayerSelector is clicked
ToggleNewPayer(personId) ==
  /\ selectorShown(draft.people)
  /\ findPerson(draft.people, personId)
  /\ editor' = [editor EXCEPT !.newItem.payers = togglePayer(@, personId)]
  /\ UNCHANGED <<draft, result, warnings, pc, upload, alert>>

\* All of the add form's PayerSelector
SelectAllNew ==
  /\ selectorShown(draft.people)
  /\ editor' = [editor EXCEPT !.newItem.payers = selectAll(draft.people)]
  /\ UNCHANGED <<draft, result, warnings, pc, upload, alert>>

\* None of the add form's PayerSelector
SelectNoneNew ==
  /\ selectorShown(draft.people)
  /\ editor' = [editor EXCEPT !.newItem.payers = selectNone]
  /\ UNCHANGED <<draft, result, warnings, pc, upload, alert>>

\* handleAddItem, behind the Add Item button (disabled without name, price
\* or payers); the new item's row is mounted with editItem = item
HandleAddItem ==
  /\ Len(draft.items) < MaxEditorItems
  /\ editor.newItem.filled
  /\ Len(editor.newItem.payers) # 0
  /\ \E item \in {Item(freshItemId, 100, editor.newItem.payers)} :
       /\ Dispatch([type |-> "ADD_ITEM", item |-> item])
       /\ editor' = [newItem |-> initialEditor.newItem,
                     rows |-> [id \in DOMAIN editor.rows \cup {item.id} |->
                                 IF id = item.id
                                 THEN [isEditing |-> FALSE, editItem |-> item]
                                 ELSE editor.rows[id]]]
  /\ UNCHANGED <<pc, upload, alert>>

\* the Edit / Assign Payers button of a row: setIsEditing(true)
StartEditing(itemId) ==
  /\ itemId \in DOMAIN editor.rows
  /\ ~editor.rows[itemId].isEditing
  /\ editor' = [editor EXCEPT !.rows[itemId].isEditing = TRUE]
  /\ UNCHANGED <<draft, result, warnings, pc, upload, alert>>

\* a chip of the PayerSelector of a row being edited
ToggleEditPayer(itemId, personId) ==
  /\ itemId \in DOMAIN editor.rows
  /\ editor.rows[itemId].isEditing
  /\ selectorShown(draft.people)
  /\ findPerson(draft.people, personId)
  /\ editor' = [editor EXCEPT !.rows[itemId].editItem.payers = togglePayer(@, personId)]
  /\ UNCHANGED <<draft, result, warnings, pc, upload, alert>>

\* All of the PayerSelector of a row being edited
SelectAllEdit(itemId) ==
  /\ itemId \in DOMAIN editor.rows
  /\ editor.rows[itemId].isEditing
  /\ selectorShown(draft.people)
  /\ editor' = [editor EXCEPT !.rows[itemId].editItem.payers = selectAll(draft.people)]
  /\ UNCHANGED <<draft, result, warnings, pc, upload, alert>>

\* None of the PayerSelector of a row being edited
SelectNoneEdit(itemId) ==
  /\ itemId \in DOMAIN editor.rows
  /\ editor.rows[itemId].isEditing
  /\ selectorShown(draft.people)
  /\ editor' = [editor EXCEPT !.rows[itemId].editItem.payers = selectNone]
  /\ UNCHANGED <<draft, result, warnings, pc, upload, alert>>

\* handleSave: onUpdate(editItem); setIsEditing(false)
HandleSave(itemId) ==
  /\ itemId \in DOMAIN editor.rows
  /\ editor.rows[itemId].isEditing
  /\ Dispatch([type |-> "UPDATE_ITEM", item |-> editor.rows[itemId].editItem])
  /\ editor' = [editor EXCEPT !.rows[itemId].isEditing = FALSE]
  /\ UNCHANGED <<pc, upload, alert>>

\* handleCancel: setEditItem(item); setIsEditing(false)
HandleCancel(itemId) ==
  /\ itemId \in DOMAIN editor.rows
  /\ editor.rows[itemId].isEditing
  /\ editor' = [editor EXCEPT !.rows[itemId] =
                                [isEditing |-> FALSE, editItem |-> itemProp(itemId)]]
  /\ UNCHANGED <<draft, result, warnings, pc, upload, alert>>

\* the Remove button of a row that is not being edited; the row is unmounted
HandleRemove(itemId) ==
  /\ itemId \in DOMAIN editor.rows
  /\ ~editor.rows[itemId].isEditing
  /\ Dispatch([type |-> "REMOVE_ITEM", itemId |-> itemId])
  /\ editor' = [editor EXCEPT !.rows = [id \in DOMAIN editor.rows \ {itemId} |->
                                          editor.rows[id]]]
  /\ UNCHANGED <<pc, upload, alert>>

\* the people bank adds a person under a new id
AddNewPerson(person) ==
  /\ ~findPerson(draft.people, person.id)
  /\ AddPerson(person)

EditorNext ==
  \/ \E personId \in AppIds : AddNewPerson(Person(personId))
  \/ \E person \in AppPersons : UpdatePerson(person)
  \/ \E personId \in AppIds : RemovePerson(personId)
  \/ TypeNewItem
  \/ \E personId \in AppIds : ToggleNewPayer(personId)
  \/ SelectAllNew
  \/ SelectNoneNew
  \/ HandleAddItem
  \/ \E itemId \in 1..MaxEditorItems :
       \/ StartEditing(itemId)
       \/ \E personId \in AppIds : ToggleEditPayer(itemId, personId)
       \/ SelectAllEdit(itemId)
       \/ SelectNoneEdit(itemId)
       \/ HandleSave(itemId)
       \/ HandleCancel(itemId)
       \/ HandleRemove(itemId)

EditorSpec == ReducerInit /\ [][EditorNext]_vars

(***************************************************************************)
(* Vocabulary of the properties: what a result and its draft say.          *)
(***************************************************************************)
RECURSIVE SeqSum(_)
SeqSum(s) == IF s = <<>> THEN 0 ELSE s[1] + SeqSum(Tail(s))

Count(s, P(_)) == Cardinality({k \in 1..Len(s) : P(s[k])})

PersonIds(d) == {d.people[k].id : k \in 1..Len(d.people)}

\* the sum of the pre-rounding per-person subtotals of the result
FracSubtotalSum == SeqSum([k \in 1..Len(result.perPerson) |-> result.perPerson[k].fractional.subtotal])

\* the rounded per-person totals before reconciliation, and their distance
\* to the rounded receipt grand total
RoundedTotalOf(b) == RoundHalfUpDiv(b.fractional.total, Unit) * Unit

ResultDelta ==
  RoundHalfUpDiv(result.receiptSubtotal + result.receiptTax, Unit) * Unit
    - SeqSum([k \in 1..Len(result.perPerson) |-> RoundedTotalOf(result.perPerson[k])])

AppliedIds == [k \in 1..Len(result.residualApplied) |-> result.residualApplied[k].personId]

BreakdownOf(personId) ==
  result.perPerson[CHOOSE k \in 1..Len(result.perPerson) : result.perPerson[k].personId = personId]

\* |pre-rounding total - rounded total| of a person, before reconciliation
RemainderOf(personId) ==
  Abs(BreakdownOf(personId).fractional.total - RoundedTotalOf(BreakdownOf(personId)))

\* p comes before q in 'descending remainder, then ascending person id'
ComesBefore(p, q) ==
  \/ RemainderOf(p) > RemainderOf(q)
  \/ RemainderOf(p) = RemainderOf(q) /\ IdRank(p) < IdRank(q)

\* C1: after compute, the per-person totals sum to the rounded receipt
\* grand total round2(receiptSubtotal + taxTotal), for every draft (checked
\* on the drafts of the data model, price >= 0 and taxTotal >= 0, that have
\* a person to carry the total).
C1_Conservation ==
  Done /\ draft.people # <<>> /\ draft.taxTotal >= 0
       /\ (\A i \in 1..Len(draft.items) : draft.items[i].price >= 0)
    => SumTotals(result.perPerson, 1)
            = RoundHalfUpDiv(result.receiptSubtotal + draft.taxTotal, Unit) * Unit

\* C2: whenever the sum of the per-person subtotals is nonzero, positive or
\* negative, every person's pre-rounding tax share is
\* taxTotal * subtotal / totalSubtotal (as the decimal division rounds it).
C2_TaxFormula ==
  Done /\ FracSubtotalSum # 0 =>
    \A k \in 1..Len(result.perPerson) :
      result.perPerson[k].fractional.taxShare
        = RoundHalfUpDiv(draft.taxTotal * result.perPerson[k].fractional.subtotal,
                         FracSubtotalSum)

\* C3 as stated: for every two people with nonzero pre-rounding subtotal,
\* taxShare_p * subtotal_q = taxShare_q * subtotal_p exactly.
C3_ProportionalExact ==
  Done =>
    \A i, j \in 1..Len(result.perPerson) :
      LET p == result.perPerson[i].fractional
          q == result.perPerson[j].fractional
      IN  p.subtotal # 0 /\ q.subtotal # 0 =>
            p.taxShare * q.subtotal = q.taxShare * p.subtotal

\* C3 amended: for every two people with nonzero pre-rounding subtotal,
\* taxShare_p * subtotal_q and taxShare_q * subtotal_p agree up to the
\* rounding of the two divisions: each tax share is within half a step of
\* the last decimal place of the exact proportional share.
C3_ProportionalRounded ==
  Done =>
    \A i, j \in 1..Len(result.perPerson) :
      LET p == result.perPerson[i].fractional
          q == result.perPerson[j].fractional
      IN  p.subtotal # 0 /\ q.subtotal # 0 =>
            2 * Abs(p.taxShare * q.subtotal - q.taxShare * p.subtotal)
              <= Abs(p.subtotal) + Abs(q.subtotal)

C3_Witness ==
  /\ Done
  /\ \E i, j \in 1..Len(result.perPerson) :
       LET p == result.perPerson[i].fractional
           q == result.perPerson[j].fractional
       IN  /\ p.subtotal # 0 /\ q.subtotal # 0
           /\ p.taxShare # 0 /\ q.taxShare # 0
           /\ p.taxShare * q.subtotal # q.taxShare * p.subtotal

IsCannotAllocate(w) == w = CannotAllocateWarning

\* C4: when the per-person subtotals sum to zero and taxTotal > 0, every
\* tax share (rounded and pre-rounding) is zero and the 'cannot allocate
\* tax' warning occurs exactly once; in every other case it does not occur.
C4_NonAllocatableTax ==
  Done =>
    IF FracSubtotalSum = 0 /\ draft.taxTotal > 0
    THEN /\ Count(result.warnings, IsCannotAllocate) = 1
         /\ \A k \in 1..Len(result.perPerson) :
              /\ result.perPerson[k].taxShare = 0
              /\ result.perPerson[k].fractional.taxShare = 0
    ELSE Count(result.warnings, IsCannotAllocate) = 0

\* the tax cannot be allocated although people were credited: their
\* subtotals cancel
C4_Witness ==
  /\ Done
  /\ FracSubtotalSum = 0 /\ draft.taxTotal > 0
  /\ \E k \in 1..Len(result.perPerson) : result.perPerson[k].fractional.subtotal # 0
  /\ Count(result.warnings, IsCannotAllocate) = 1

\* the pre-rounding per-person subtotals of a result, in perPerson order
FracSubtotals(r) == [k \in 1..Len(r.perPerson) |-> r.perPerson[k].fractional.subtotal]

ItemPrices(d) == [i \in 1..Len(d.items) |-> d.items[i].price]

WithoutZeroPayerItems(d) ==
  [d EXCEPT !.items = SelectSeq(d.items, LAMBDA item : item.payers # <<>>)]

Entries(item, id) == Cardinality({k \in 1..Len(item.payers) : item.payers[k] = id})

UnknownEntries(d, item) ==
  Cardinality({k \in 1..Len(item.payers) : item.payers[k] \notin PersonIds(d)})

\* price / n of an item with n >= 1 payer entries
ShareOf(item) == RoundHalfUpDiv(item.price, Len(item.payers))

\* what the payer entries naming id credit, over all items
CreditedTo(d, id) ==
  SeqSum([i \in 1..Len(d.items) |->
            IF d.items[i].payers = <<>> THEN 0
            ELSE Entries(d.items[i], id) * ShareOf(d.items[i])])

\* receiptSubtotal minus the prices of the zero-payer items minus the
\* price / n shares of the unknown payer entries
AttributedSubtotal(d) ==
  SeqSum([i \in 1..Len(d.items) |->
            IF d.items[i].payers = <<>> THEN 0
            ELSE d.items[i].price - UnknownEntries(d, d.items[i]) * ShareOf(d.items[i])])

PayerEntries(d) == SeqSum([i \in 1..Len(d.items) |-> Len(d.items[i].payers)])

CreditsAndWarnings ==
  /\ \A k \in 1..Len(result.perPerson) :
       result.perPerson[k].fractional.subtotal
         = CreditedTo(draft, result.perPerson[k].personId)
  /\ \A i \in 1..Len(draft.items) : \A id \in Range(draft.items[i].payers) :
       Count(result.warnings, LAMBDA w : w = UnknownPayerWarning(id, draft.items[i].name))
         = IF id \in PersonIds(draft) THEN 0 ELSE Entries(draft.items[i], id)

\* C6 as stated: every known payer entry credits price / n, every unknown
\* entry gives one warning and credits nobody, and the per-person subtotals
\* sum to receiptSubtotal minus the zero-payer prices minus the unknown
\* entries' shares, exactly.
C6_UnknownPayersExact ==
  Done => CreditsAndWarnings /\ FracSubtotalSum = AttributedSubtotal(draft)

\* C6 amended: the same, with the sum equal up to the rounding of price / n:
\* at most half a step of the last decimal place per payer entry.
C6_UnknownPayersRounded ==
  Done =>
    /\ CreditsAndWarnings
    /\ 2 * Abs(FracSubtotalSum - AttributedSubtotal(draft)) <= PayerEntries(draft)

C6_Witness ==
  /\ Done
  /\ \E i \in 1..Len(draft.items) :
       /\ UnknownEntries(draft, draft.items[i]) = 1
       /\ Len(draft.items[i].payers) = 3
  /\ FracSubtotalSum # 0
  /\ FracSubtotalSum # AttributedSubtotal(draft)

\* C7: residualApplied has at most one entry per person, every entry is
\* +0.01 or -0.01 with the sign of delta = grandRounded - sum of rounded
\* totals, and the amount distributed exceeds neither 0.01 * number of
\* people nor |delta|.
C7_MonotonicReconciliation ==
  Done =>
    /\ IsInjective(AppliedIds)
    /\ \A k \in 1..Len(result.residualApplied) :
         /\ result.residualApplied[k].delta \in {Cents(1), -Cents(1)}
         /\ Sign(result.residualApplied[k].delta) = Sign(ResultDelta)
    /\ Len(result.residualApplied) * Cents(1) <= Len(draft.people) * Cents(1)
    /\ Len(result.residualApplied) * Cents(1) <= Abs(ResultDelta)

\* a negative delta smaller than the number of people: the loop stops early
C7_Witness ==
  /\ Done
  /\ ResultDelta = -Cents(1)
  /\ Len(result.residualApplied) = 1
  /\ Len(draft.people) = 3

\* C8: the people adjusted are the first k in 'descending |pre-rounding
\* total - rounded total|, then ascending person id', residualApplied lists
\* them in that order, and Scenario B gives the single adjustment to A.
C8_ResidualOrder ==
  Done =>
    /\ \A i, j \in 1..Len(AppliedIds) : i < j => ComesBefore(AppliedIds[i], AppliedIds[j])
    /\ \A k \in 1..Len(result.perPerson) :
         LET id == result.perPerson[k].personId
         IN  IF id \in Range(AppliedIds)
             THEN result.perPerson[k].total # RoundedTotalOf(result.perPerson[k])
             ELSE /\ result.perPerson[k].total = RoundedTotalOf(result.perPerson[k])
                  /\ \A a \in Range(AppliedIds) : ComesBefore(a, id)
    /\ draft = ScenarioB =>
         result.residualApplied = <<[personId |-> "A", delta |-> -Cents(1)]>>

\* several people are adjusted, and a larger remainder puts a later id first
C8_Witness ==
  /\ Done
  /\ Len(AppliedIds) >= 2
  /\ IdRank(AppliedIds[1]) > IdRank(AppliedIds[2])
  /\ RemainderOf(AppliedIds[1]) > RemainderOf(AppliedIds[2])

ScenarioAResult ==
  [perPerson |->
     <<[personId |-> "kev", subtotal |-> Cents(250), taxShare |-> Cents(20),
        total |-> Cents(270),
        fractional |-> [subtotal |-> Cents(250), taxShare |-> Cents(20), total |-> Cents(270)]],
       [personId |-> "ali", subtotal |-> Cents(100), taxShare |-> Cents(8),
        total |-> Cents(108),
        fractional |-> [subtotal |-> Cents(100), taxShare |-> Cents(8), total |-> Cents(108)]],
       [personId |-> "bob", subtotal |-> Cents(100), taxShare |-> Cents(8),
        total |-> Cents(108),
        fractional |-> [subtotal |-> Cents(100), taxShare |-> Cents(8), total |-> Cents(108)]]>>,
   receiptSubtotal |-> Cents(450),
   receiptTax |-> Cents(36),
   receiptGrand |-> Cents(486),
   residualApplied |-> <<>>,
   warnings |-> <<>>]

\* C9: Scenario A yields subtotals 2.50/1.00/1.00, tax shares 0.20/0.08/0.08,
\* totals 2.70/1.08/1.08, an empty residualApplied and no warnings.
C9_ScenarioA == Done /\ draft = ScenarioA => result = ScenarioAResult

C9_Witness == Done /\ draft = ScenarioA /\ Len(result.perPerson) = 3

(***************************************************************************)
(* Totality.                                                               *)
(***************************************************************************)
ValidationKinds == {"NegativeTax", "NegativePrice", "NoPayersAssigned", "UnknownPayer",
                    "DuplicateIds"}

ResultFields == {"perPerson", "receiptSubtotal", "receiptTax", "receiptGrand",
                 "residualApplied", "warnings"}

\* every amount of a breakdown is a finite number
FiniteBreakdown(b) ==
  /\ isFinite(b.subtotal) /\ isFinite(b.taxShare) /\ isFinite(b.total)
  /\ isFinite(b.fractional.subtotal) /\ isFinite(b.fractional.taxShare)
  /\ isFinite(b.fractional.total)

\* C11: for every draft (no people, no items, items without payers, zero or
\* negative attributed subtotal, negative tax or prices) validateDraft
\* returns a list of warnings and compute returns a result whose amounts
\* are all finite, and no division compute performs has a zero divisor
\* (neither a payer count nor totalSubtotal).
C11_Totality ==
  /\ pc # "start" =>
        \A k \in 1..Len(warnings) : warnings[k].kind \in ValidationKinds
  /\ Done =>
        /\ DOMAIN result = ResultFields
        /\ \A k \in 1..Len(result.perPerson) : FiniteBreakdown(result.perPerson[k])
        /\ isFinite(result.receiptSubtotal) /\ isFinite(result.receiptGrand)
        /\ 0 \notin Range(DivisorsOf(draft))

\* an item is divided among its payers, their subtotals cancel and the tax
\* is negative: the tax allocation must not divide
C11_Witness ==
  /\ Done
  /\ draft.people # <<>>
  /\ draft.taxTotal < 0
  /\ Len(DivisorsOf(draft)) >= 2
  /\ \E k \in 1..Len(result.perPerson) : result.perPerson[k].fractional.subtotal # 0
  /\ FracSubtotalSum = 0

(***************************************************************************)
(* validateDraft.                                                          *)
(***************************************************************************)
\* the j-th (from 1) of a set of positions
Nth(positions, j) ==
  CHOOSE k \in positions : Cardinality({m \in positions : m < k}) = j - 1

\* the unknown-payer warnings of an item: one per payers entry whose id no
\* person has, in payer order
ExpectedUnknownPayers(d, item) ==
  LET unknown == {k \in 1..Len(item.payers) : item.payers[k] \notin PersonIds(d)}
  IN  [j \in 1..Cardinality(unknown) |->
         [kind |-> "UnknownPayer", item |-> item.name, payer |-> item.payers[Nth(unknown, j)]]]

\* the warnings of one item, in the order the claim gives
ExpectedItemWarnings(d, item) ==
  (IF item.price < 0
   THEN <<[kind |-> "NegativePrice", item |-> item.name, payer |-> ""]>> ELSE <<>>)
  \o (IF item.payers = <<>>
      THEN <<[kind |-> "NoPayersAssigned", item |-> item.name, payer |-> ""]>> ELSE <<>>)
  \o ExpectedUnknownPayers(d, item)

RECURSIVE ExpectedItemsWarnings(_, _)
\* the warnings of the items from the i-th on, in list order
ExpectedItemsWarnings(d, i) ==
  IF i > Len(d.items) THEN <<>>
  ELSE ExpectedItemWarnings(d, d.items[i]) \o ExpectedItemsWarnings(d, i + 1)

\* the warnings before the duplicate-ids warning
ExpectedBeforeDuplicates(d) ==
  (IF d.taxTotal < 0 THEN <<[kind |-> "NegativeTax", item |-> "", payer |-> ""]>> ELSE <<>>)
  \o ExpectedItemsWarnings(d, 1)

\* the ids of more than one person of the draft
RepeatedIds(d) ==
  {d.people[k].id : k \in {k \in 1..Len(d.people) :
                             \E j \in 1..Len(d.people) : j # k /\ d.people[j].id = d.people[k].id}}

\* C15: validateDraft returns exactly this sequence: the negative-tax
\* warning iff taxTotal < 0; then for each item in list order a
\* negative-price warning iff price < 0, a no-payers warning iff payers is
\* empty and one unknown-payer warning (naming id and item) per payers entry
\* whose id is not in people, in payer order; then the duplicate-ids warning
\* if some id is repeated; and nothing else.
C15_ValidatorOutput ==
  pc # "start" =>
    LET expected == ExpectedBeforeDuplicates(draft)
        n == Len(expected)
    IN  /\ Len(warnings) = n + (IF RepeatedIds(draft) # {} THEN 1 ELSE 0)
        /\ SubSeq(warnings, 1, n) = expected
        /\ RepeatedIds(draft) # {} => warnings[n + 1].kind = "DuplicateIds"

\* a draft with every kind of issue but an empty payers list: negative tax,
\* a negative price, two unknown payers and a repeated person id
C15_Witness ==
  /\ pc # "start"
  /\ Len(warnings) = 5
  /\ warnings[1].kind = "NegativeTax"
  /\ warnings[2].kind = "NegativePrice"
  /\ warnings[3].kind = "UnknownPayer" /\ warnings[4].kind = "UnknownPayer"
  /\ warnings[3].payer # warnings[4].payer
  /\ warnings[5].kind = "DuplicateIds"

\* the duplicate-ids warnings among the warnings
DuplicateIdsWarnings ==
  {k \in 1..Len(warnings) : warnings[k].kind = "DuplicateIds"}

\* C16: validateDraft emits exactly one duplicate-ids warning when some id
\* occurs more than once in people and none when all ids are distinct, and
\* the ids that warning lists are the ids that occur more than once.
C16_DuplicateIds ==
  pc # "start" =>
    IF RepeatedIds(draft) = {}
    THEN DuplicateIdsWarnings = {}
    ELSE /\ Cardinality(DuplicateIdsWarnings) = 1
         /\ \A k \in DuplicateIdsWarnings : Range(warnings[k].ids) = RepeatedIds(draft)

\* one id is held by two people and the warning lists it once
C16_Witness ==
  /\ pc # "start"
  /\ Len(draft.people) = 3
  /\ Cardinality(RepeatedIds(draft)) = 1
  /\ \E k \in DuplicateIdsWarnings : Len(warnings[k].ids) = 1

(***************************************************************************)
(* The people of a result.                                                 *)
(***************************************************************************)
\* the ids of the people of d, each once, in the order of their first
\* occurrence
FirstOccurrences(d) ==
  LET first == {k \in 1..Len(d.people) :
                  \A j \in 1..(k - 1) : d.people[j].id # d.people[k].id}
  IN  [j \in 1..Cardinality(first) |-> d.people[Nth(first, j)].id]

\* the ids the payers lists of d hold
PayerIds(d) == UNION {Range(d.items[i].payers) : i \in 1..Len(d.items)}

\* C17: perPerson has exactly one entry per distinct person id of
\* draft.people, in first-occurrence order, and so none for an id that is not
\* in draft.people; a person who is payer on no item has subtotal, taxShare
\* and the three pre-rounding values zero.
C17_EveryoneAppears ==
  Done =>
    /\ [k \in 1..Len(result.perPerson) |-> result.perPerson[k].personId]
         = FirstOccurrences(draft)
    /\ \A k \in 1..Len(draft.people) :
         \E j \in 1..Len(result.perPerson) : result.perPerson[j].personId = draft.people[k].id
    /\ \A j \in 1..Len(result.perPerson) :
         result.perPerson[j].personId \notin PayerIds(draft)
           => /\ result.perPerson[j].subtotal = 0
              /\ result.perPerson[j].taxShare = 0
              /\ result.perPerson[j].fractional = [subtotal |-> 0, taxShare |-> 0, total |-> 0]

\* a person is listed again after another one, an item is paid by a third
\* party and a listed person, and tax is allocated: the result keeps the
\* first places, and the person who pays nothing is there with zeros
C17_Witness ==
  /\ Done
  /\ Len(draft.people) = 3
  /\ draft.people[1].id = draft.people[3].id
  /\ draft.people[1].id # draft.people[2].id
  /\ Len(result.perPerson) = 2
  /\ result.perPerson[2].personId \notin PayerIds(draft)
  /\ result.perPerson[1].fractional.taxShare # 0
  /\ \E id \in PayerIds(draft) : id \notin PersonIds(draft)

(***************************************************************************)
(* Half-up rounding.                                                       *)
(***************************************************************************)
\* the values round2HalfUp is tried on besides those of the runs: every grid
\* value from -RoundingRange to RoundingRange cents
RoundingRange == 3

RoundingInputs == (-Cents(RoundingRange))..Cents(RoundingRange)

\* r is v rounded half-up to cents: a multiple of 0.01 at most 0.005 from v,
\* and the one farther from zero when v is exactly halfway between two
HalfUpOf(r, v) ==
  /\ r % Cents(1) = 0
  /\ 2 * Abs(r - v) <= Cents(1)
  /\ 2 * Abs(r - v) = Cents(1) => Abs(r) > Abs(v)

\* round2HalfUp is half-up rounding on every value of the range
RoundsHalfUpOnRange == \A v \in RoundingInputs : HalfUpOf(round2HalfUp(v), v)

\* the two examples, on a grid that holds half cents
RoundsExamples ==
  Unit % 2 = 0 =>
    /\ round2HalfUp(Cents(234) + Unit \div 2) = Cents(235)
    /\ round2HalfUp(-(Cents(234) + Unit \div 2)) = -Cents(235)

\* C19: round2HalfUp maps every value to the nearest multiple of 0.01 and an
\* exact halfway value to the multiple farther from zero (2.345 to 2.35,
\* -2.345 to -2.35, where the grid holds half cents), and before the
\* reconciliation each person's subtotal, taxShare and total is its
\* pre-rounding value rounded so, each on its own; the reconciliation leaves
\* subtotal and taxShare as they were rounded.
C19_HalfUpRounding ==
  /\ RoundsHalfUpOnRange
  /\ RoundsExamples
  /\ Done =>
       \E rounded \in {perPersonRoundedOf(draft)} :
         /\ Len(rounded) = Len(result.perPerson)
         /\ \A k \in 1..Len(rounded) :
              /\ HalfUpOf(rounded[k].subtotal, rounded[k].fractional.subtotal)
              /\ HalfUpOf(rounded[k].taxShare, rounded[k].fractional.taxShare)
              /\ HalfUpOf(rounded[k].total, rounded[k].fractional.total)
              /\ result.perPerson[k].subtotal = rounded[k].subtotal
              /\ result.perPerson[k].taxShare = rounded[k].taxShare
              /\ result.perPerson[k].fractional = rounded[k].fractional

\* a negative tax of one cent is shared by two equal payers: each share is
\* minus half a cent and is rounded to minus one cent, while the subtotal
\* and the total round on their own
C19_Witness ==
  /\ Done
  /\ \E k \in 1..Len(result.perPerson) :
       /\ result.perPerson[k].fractional.taxShare < 0
       /\ 2 * Abs(result.perPerson[k].fractional.taxShare) = Cents(1)
       /\ result.perPerson[k].taxShare = -Cents(1)
       /\ result.perPerson[k].fractional.subtotal > 0
       /\ result.perPerson[k].fractional.total % Cents(1) # 0

(***************************************************************************)
(* Residual accounting.                                                    *)
(***************************************************************************)
\* the sum of the deltas residualApplied records for a person
DeltasFor(personId) ==
  SeqSum([k \in 1..Len(result.residualApplied) |->
            IF result.residualApplied[k].personId = personId
            THEN result.residualApplied[k].delta ELSE 0])

\* C21: in every result each person's final total is the rounded
\* pre-rounding total plus the deltas residualApplied records for that
\* person; when delta is zero residualApplied is empty and every total is
\* the plain rounded value; the rounded subtotal and taxShare are those of
\* the rounding loop, whatever the reconciliation did.
C21_ResidualAccounting ==
  Done =>
    \E rounded \in {perPersonRoundedOf(draft)} :
      /\ Len(rounded) = Len(result.perPerson)
      /\ \A k \in 1..Len(rounded) :
           /\ result.perPerson[k].total
                = RoundedTotalOf(result.perPerson[k]) + DeltasFor(result.perPerson[k].personId)
           /\ rounded[k].total = RoundedTotalOf(result.perPerson[k])
           /\ result.perPerson[k].subtotal = rounded[k].subtotal
           /\ result.perPerson[k].taxShare = rounded[k].taxShare
      /\ DeltaOf(result.receiptGrand, rounded) = 0 =>
           /\ result.residualApplied = <<>>
           /\ result.perPerson = rounded

\* two of three people received a cent each and the third none
C21_Witness ==
  /\ Done
  /\ Len(result.perPerson) = 3
  /\ Len(result.residualApplied) = 2
  /\ \E k \in 1..3 :
       /\ DeltasFor(result.perPerson[k].personId) = 0
       /\ result.perPerson[k].fractional.total # 0
  /\ \E k \in 1..3 :
       /\ DeltasFor(result.perPerson[k].personId) # 0
       /\ result.perPerson[k].total # RoundedTotalOf(result.perPerson[k])

(***************************************************************************)
(* Conservation for well-formed drafts.                                    *)
(***************************************************************************)
\* distinct person ids, every item with at least one payer and only payers
\* that are people, prices and tax non-negative whole cents
WellFormed(d) ==
  /\ IsInjective([k \in 1..Len(d.people) |-> d.people[k].id])
  /\ \A i \in 1..Len(d.items) :
       /\ d.items[i].payers # <<>>
       /\ Range(d.items[i].payers) \subseteq PersonIds(d)
       /\ d.items[i].price >= 0
       /\ d.items[i].price % Cents(1) = 0
  /\ d.taxTotal >= 0
  /\ d.taxTotal % Cents(1) = 0

C12_RecomputeOnEdit ==
  IF result = NoResult
  THEN [draft |-> draft, result |-> result, warnings |-> warnings] = initialState
  ELSE result = compute(draft) /\ warnings = validateDraft(draft)

\* the tax was raised after the items were assigned, and the result
\* allocates the new tax
C12_Witness ==
  /\ draft.taxTotal = Cents(1)
  /\ result # NoResult
  /\ result.receiptTax = Cents(1)
  /\ \E k \in 1..Len(result.perPerson) : result.perPerson[k].fractional.taxShare # 0
  /\ Len(warnings) = 1

\* the entries of s at the kept positions, in order
Kept(s, kept) == [j \in 1..Cardinality(kept) |-> s[Nth(kept, j)]]

\* what C13 says of the drafts before and after REMOVE_PERSON(p)
Cascaded(p, before, after) ==
  /\ \A k \in 1..Len(after.people) : after.people[k].id # p
  /\ \A i \in 1..Len(after.items) : p \notin Range(after.items[i].payers)
  /\ after.people
       = Kept(before.people, {k \in 1..Len(before.people) : before.people[k].id # p})
  /\ Len(after.items) = Len(before.items)
  /\ \A i \in 1..Len(before.items) :
       /\ after.items[i].payers
            = Kept(before.items[i].payers,
                   {k \in 1..Len(before.items[i].payers) : before.items[i].payers[k] # p})
       /\ [after.items[i] EXCEPT !.payers = before.items[i].payers] = before.items[i]

\* C13: REMOVE_PERSON(p) yields a draft in which no person has id p and no
\* payers list contains p, while the other people, the other payer entries
\* (in order) and the other fields of every item are unchanged.
C13_RemovePersonCascade ==
  [][\A p \in AppIds :
       draft' = removePerson(draft, p) /\ RemovePerson(p) => Cascaded(p, draft, draft')]_vars

\* A was removed from a receipt: B is still a person, and an item A shared
\* with B is B's alone (no action gives an item the payers <<B>>)
C13_Witness ==
  /\ \A k \in 1..Len(draft.people) : draft.people[k].id # "A"
  /\ \E k \in 1..Len(draft.people) : draft.people[k].id = "B"
  /\ \E i \in 1..Len(draft.items) : draft.items[i].payers = <<"B">>
  /\ \E i \in 1..Len(draft.items) : draft.items[i].payers = <<>>
  /\ result = compute(draft)

(***************************************************************************)
(* Import.                                                                 *)
(***************************************************************************)
\* the files the claim lists: an unsupported extension, a JSON syntax error,
\* no items or people array, a CSV without header and row or without a
\* name or price column
FailsAsListed(file) ==
  \/ toLowerCase(file.extension) \notin {"csv", "json"}
  \/ /\ toLowerCase(file.extension) = "json"
     /\ \/ "json" \notin DOMAIN file
        \/ "items" \notin DOMAIN file.json
        \/ "people" \notin DOMAIN file.json
  \/ /\ toLowerCase(file.extension) = "csv"
     /\ \/ Len(file.lines) < 2
        \/ "name" \notin Range(file.lines[1])
        \/ "price" \notin Range(file.lines[1])

\* C14: when the import of a file fails (unsupported extension, JSON syntax
\* error, missing items or people array, CSV without header and row or
\* without name or price column), no draft is loaded: draft, result and
\* warnings are what they were before, and an alert is shown.
C14_FailedImport ==
  [][pc = "reading" /\ pc' = "idle" /\ FailsAsListed(upload.file) =>
       /\ draft' = draft
       /\ result' = result
       /\ warnings' = warnings
       /\ alert' # NoAlert]_vars

\* a receipt was loaded and a later import of a CSV without rows has failed
C14_Witness ==
  /\ pc = "idle"
  /\ alert = "CSV must have header and at least one data row"
  /\ draft.items # <<>>
  /\ draft.taxTotal # 0
  /\ result = compute(draft)

\* the words a row lists from the payers column on, trimmed
PayerNamesOf(file, i) ==
  LET header == split(file.lines[1], ",")
      words == split(file.lines[i + 1], ",")
      column == CHOOSE k \in 1..Len(header) : header[k] = "payers"
  IN  [k \in 1..(Len(words) - column + 1) |-> trim(words[k + column - 1])]

\* the people a word names: by name, whatever the case, or by id
NamedBy(people, word) ==
  {k \in 1..Len(people) :
     toLowerCase(people[k].name) = toLowerCase(word) \/ people[k].id = word}

\* the ids of the people the names name, in the order of the names
IdsNamed(people, names) ==
  LET known == {k \in 1..Len(names) : NamedBy(people, names[k]) # {}}
      nth(j) == CHOOSE k \in known : Cardinality({m \in known : m < k}) = j - 1
  IN  [j \in 1..Cardinality(known) |->
         people[CHOOSE k \in NamedBy(people, names[nth(j)]) :
                  \A m \in NamedBy(people, names[nth(j)]) : k <= m].id]

\* C20: for a CSV with a payers column, the payers of every imported item
\* are the ids of the people of the supplied list that the row's
\* comma-separated names or ids name, in the listed order, and a row whose
\* price is unparseable or negative gives no item.
C20_CsvPayersColumn ==
  [][/\ FinishUploadLoaded
     /\ toLowerCase(upload.file.extension) = "csv"
     /\ "payers" \in Range(upload.file.lines[1])
     => /\ \A k \in 1..Len(draft'.items) :
             draft'.items[k].payers
               = IdsNamed(upload.people, PayerNamesOf(upload.file, draft'.items[k].id))
        /\ \A i \in 1..(Len(upload.file.lines) - 1) :
             LET price == parseFloat(cellOf(split(upload.file.lines[1], ","),
                                            split(upload.file.lines[i + 1], ","), "price"))
             IN  (price.nan \/ price.value < 0)
                   => \A k \in 1..Len(draft'.items) : draft'.items[k].id # i]_vars

(***************************************************************************)
(* Editing.                                                                *)
(***************************************************************************)
\* C23: starting from the empty draft, after any sequence of editor
\* interactions without file import, every id in every item's payers list
\* is the id of a person of draft.people.
C23_NoDanglingPayers ==
  \A i \in 1..Len(draft.items) : Range(draft.items[i].payers) \subseteq PersonIds(draft)

(***************************************************************************)
(* Import and concurrent edits.                                            *)
(***************************************************************************)
\* C24: whatever person edits (add, rename, remove) happen while the file
\* of a CSV import is being read, the draft the import loads has the people
\* list the application held immediately before LOAD_DRAFT was applied.
C24_ImportKeepsPeople ==
  [][FinishUploadLoaded /\ toLowerCase(upload.file.extension) = "csv"
       => draft'.people = draft.people]_vars

====
